---- MODULE Spec2Model ----
(***************************************************************************)
(* The command-to-task marketplace of agentkit-phase1: the producers       *)
(* (agents/command_poller.py Poller, server/agents ProjectManagerAgent),   *)
(* the Redis list "agent_tasks", the worker loops (SiteScanner,            *)
(* ReportGenerator, Distributor, SpecialistAgent), the results channel,    *)
(* and the retry loop of agent.py ContentDistributionAgent.                *)
(*                                                                         *)
(* Representation of text.  A raw command line is the sequence of its      *)
(* whitespace-separated tokens (str.split()), and a token is the sequence  *)
(* of its "="-separated pieces (str.split("=")): the token domain=a.com is *)
(* <<"domain", "a.com">>, the token KILL_SWITCH is <<"KILL_SWITCH">>.      *)
(***************************************************************************)
EXTENDS Integers, Sequences, FiniteSets, TLC

VARIABLES
    running,            \* the processes that were started
    source,             \* the command lines in the Google Doc and its fallback file
    redisUp,            \* the Redis server answers
    keepLogs,           \* history: whether pushLog and claimLog are kept
    notionPages,        \* the Notion pages whose Status was updated
    caught,             \* history: the processes that caught the error of a Redis call and went on looping
    queue,              \* Redis list agent_tasks; queue[1] is the head (left end)
    killKey,            \* Redis key agentkit_kill_switch is set
    kv,                 \* Redis keys written by the handlers (setex)
    published,          \* every message published on channel agent_results, in order
    pollerPc,           \* Poller.run_forever: "loop", "lines" (inside run_once), "stopped"
    processed,          \* Poller.processed
    kill_switch_active, \* Poller.kill_switch_active
    docMode,            \* the reader that served the current batch: "doc", "fallback"; "none" between cycles
    docHeld,            \* the tracked lines the document held when the current batch was read
    unreached,          \* the tracked lines of the current batch the loop has not reached yet
    pmSource,           \* the lines of server/dummy_doc.txt
    pmProcessed,        \* ProjectManagerAgent.processed_lines
    pmPc,               \* ProjectManagerAgent.run: "read" (about to read_commands), "lines" (in the for loop)
    pmStartKill,        \* history: the kill-switch key was set when the current batch was read
    subscribed,         \* AuditorAgent.__init__ has subscribed to agent_results
    subscribedAt,       \* history: how many messages had been published by then
    inbox,              \* messages delivered to the auditor's pubsub, not yet read by listen()
    ledger,             \* the lines of server/ledger.txt
    clock,              \* ticks of _now() handed out as ts
    nextUuid,           \* uuid4 values handed out so far
    wpc,                \* each worker's position: "claim", "dispatch", "crashed"
    held,               \* each worker's local variable task: <<>> or <<task>>
    pushLog,            \* history: every LPUSH on agent_tasks, [task, by, src]
    claimLog,           \* history: every task returned by BRPOP, in order
    handled,            \* history: the handler invocations made, [worker, task, outcome]
    sPlatforms,         \* agent.py: self.platforms, the keys of the config in order
    sConfigs,           \* agent.py: whether platform_configs[p] is a non-empty dict
    sContents,          \* agent.py: the lengths of the content items to distribute
    sPc,                \* agent.py distribute: "start", "next", "try", "sleep", "done"
    sContent,           \* distribute: index of the content item
    sPlatform,          \* distribute: index of the platform
    sLen,               \* _send_to_platform: len(content) after the validation step
    attempt,            \* _send_to_platform: loop variable attempt
    tries,              \* outcomes of the attempts of the current send, in order
    sleeps,             \* arguments of time.sleep in the current send, in order
    lastSend,           \* history: the send that finished last
    vRaw,               \* a raw line handed to Poller.validate
    vPc,                \* that call of validate: "call", "returned"
    vOut,               \* what validate returned: <<>> for None, <<task>> otherwise
    iService,           \* the service name handed to check_integration
    iRequest,           \* how the request to Mailchimp ends: "ok", "http_error"
    iAccount,           \* the body of GET / when it succeeds
    iSites,             \* the sites of GET /connected-sites when it succeeds
    iPc,                \* that call of check_integration: "call", "returned"
    iOut                \* what the call gave: a dict returned or an exception raised

mvars == <<running, source, keepLogs, notionPages, redisUp, caught, pmSource, subscribed, subscribedAt, inbox, ledger, docHeld, unreached, pmPc, pmStartKill, queue, killKey, kv, published, pollerPc, processed, kill_switch_active,
           docMode, pmProcessed, clock, nextUuid, wpc,
           held, pushLog, claimLog, handled>>
svars == <<sPlatforms, sConfigs, sContents, sPc, sContent, sPlatform, sLen, attempt,
           tries, sleeps, lastSend>>
fvars == <<vRaw, vPc, vOut>>
ivars == <<iService, iRequest, iAccount, iSites, iPc, iOut>>

vars == <<mvars, svars, fvars, ivars>>

----------------------------------------------------------------------------
(* Bounds of the model *)

\* producer pushes (Poller and ProjectManagerAgent together)
MaxPushes == 2
\* BRPOPs that return a task
MaxClaims == 2
\* processes started together
MaxProcesses == 3
\* platforms in the config of agent.py
MaxPlatforms == 2
\* content items handed to distribute
MaxContents == 2
\* tokens after the keyword of a line handed to validate
MaxTokens == 3

----------------------------------------------------------------------------
(* Dictionaries (Python dict with string keys) *)

EmptyDict == [k \in {} |-> ""]

Put(d, k, v) == [x \in (DOMAIN d) \cup {k} |-> IF x = k THEN v ELSE d[x]]

\* dict.get(key) with default None
None == "None"

Get(d, k) == IF k \in DOMAIN d THEN d[k] ELSE None

----------------------------------------------------------------------------
(* agents/command_poller.py: schemas and validate *)

Str(required) == [required |-> required, restricted |-> FALSE, allowed |-> {}]

Enum(required, values) == [required |-> required, restricted |-> TRUE, allowed |-> values]

SCHEMAS ==
    [ SCAN_SITE |-> [domain |-> Str(TRUE)],
      PUBLISH_REPORT |-> [client |-> Str(TRUE), dataset |-> Str(TRUE),
                          format |-> Enum(TRUE, {"pdf", "csv"})],
      DISTRIBUTE_CONTENT |-> [content_file |-> Str(TRUE)],
      UPDATE_NOTION |-> [page_id |-> Str(TRUE), content |-> Str(TRUE)],
      KILL_SWITCH |-> EmptyDict ]

\* str.upper() on the keywords that occur in the model
Upper(s) ==
    CASE s = "scan_site" -> "SCAN_SITE"
      [] s = "kill_switch" -> "KILL_SWITCH"
      [] s = "start_campaign" -> "START_CAMPAIGN"
      [] OTHER -> s

\* the keyword of a line: parts[0].upper(); a first token that holds "=" is
\* no schema key
Keyword(raw) == IF Len(raw[1]) = 1 THEN Upper(raw[1][1]) ELSE "="

\* {p.split("=")[0]: p.split("=")[1] for p in parts[1:] if "=" in p}
RECURSIVE DictOfTokens(_)
DictOfTokens(toks) ==
    IF toks = <<>> THEN EmptyDict
    ELSE LET before == DictOfTokens(SubSeq(toks, 1, Len(toks) - 1))
             p == toks[Len(toks)]
         IN  IF Len(p) >= 2 THEN Put(before, p[1], p[2]) ELSE before

ParseParams(raw) == DictOfTokens(SubSeq(raw, 2, Len(raw)))

\* a validator that ignores the allowed values of a field
CerberusValidateNoAllowed(schema, params) ==
    /\ \A k \in DOMAIN params : k \in DOMAIN schema
    /\ \A k \in DOMAIN schema : schema[k].required => k \in DOMAIN params

\* a validator built with allow_unknown=True
CerberusValidateAllowUnknown(schema, params) ==
    /\ \A k \in DOMAIN schema : schema[k].required => k \in DOMAIN params
    /\ \A k \in DOMAIN params :
          k \in DOMAIN schema /\ schema[k].restricted => params[k] \in schema[k].allowed

\* cerberus Validator(schema).validate(params): no unknown key, every required
\* key present, every restricted value among the allowed ones
CerberusValidate(schema, params) ==
    /\ \A k \in DOMAIN params : k \in DOMAIN schema
    /\ \A k \in DOMAIN schema : schema[k].required => k \in DOMAIN params
    /\ \A k \in DOMAIN params :
          k \in DOMAIN schema /\ schema[k].restricted => params[k] \in schema[k].allowed

\* Poller.validate: <<>> for None, <<task>> otherwise
validate(raw) ==
    LET cmd == Keyword(raw)
        params == ParseParams(raw)
    IN  IF cmd \notin DOMAIN SCHEMAS THEN <<>>
        ELSE IF ~CerberusValidate(SCHEMAS[cmd], params) THEN <<>>
        ELSE << [type |-> cmd, params |-> params, raw |-> raw] >>

\* _hash: the first 12 hex digits of sha256(raw), a function of raw alone
_hash(raw) == <<"sha256", raw>>

----------------------------------------------------------------------------
(* The command source of the Poller *)

Tok(k, v) == <<k, v>>

LineScan == << <<"SCAN_SITE">>, Tok("domain", "example.com") >>
LineReport ==
    << <<"PUBLISH_REPORT">>, Tok("client", "acme"), Tok("dataset", "q3"), Tok("format", "pdf") >>
LineDistribute == << <<"DISTRIBUTE_CONTENT">>, Tok("content_file", "post.txt") >>
LineNotion == << <<"UPDATE_NOTION">>, Tok("page_id", "p1"), Tok("content", "done") >>
LineKill == << <<"kill_switch">> >>
LineScanNoDomain == << <<"SCAN_SITE">> >>
LineReportPpt ==
    << <<"PUBLISH_REPORT">>, Tok("client", "acme"), Tok("dataset", "q3"), Tok("format", "ppt") >>
LineUnknown == << <<"DEPLOY">>, Tok("env", "prod") >>

DocLines ==
    { LineScan, LineReport, LineDistribute, LineNotion, LineKill,
      LineScanNoDomain, LineReportPpt, LineUnknown }

\* a document of site and report commands, and one of publishing commands
DocOperations == {LineScan, LineReport, LineKill, LineScanNoDomain, LineReportPpt}
DocPublishing == {LineDistribute, LineNotion, LineKill, LineUnknown}

\* the documents the Poller is run against
Documents == {DocOperations, DocPublishing}

\* the lines whose presence in the document is recorded at each read; any
\* other line of source is in a batch or not as the steps of the loop choose
Tracked == {LineKill}

\* "=" in text
HasEquals(raw) == \E i \in 1..Len(raw) : Len(raw[i]) >= 2

\* GoogleDocsClient.read_doc keeps the text runs that hold "=";
\* _read_fallback keeps every non-empty line that is no comment
Readable(mode) ==
    IF mode = "doc" THEN {l \in source : HasEquals(l)} ELSE source

----------------------------------------------------------------------------
(* Redis operations on the list agent_tasks *)

\* LPUSH: the new element becomes the head
LPush(q, x) == <<x>> \o q

\* a pop at the end the pushes go to (LPOP after LPUSH)
PopAtPushEnd(q) == [value |-> q[1], rest |-> Tail(q)]

\* a read of the last element that leaves it on the list
PeekWithoutRemoving(q) == [value |-> q[Len(q)], rest |-> q]

\* a pop that rotates the list: the element returned goes back to the head
\* (BRPOPLPUSH onto the same list)
PopAndRotate(q) == [value |-> q[Len(q)], rest |-> <<q[Len(q)]>> \o SubSeq(q, 1, Len(q) - 1)]

\* BRPOP on a non-empty list: removes and returns the last element
BRPop(q) == [value |-> q[Len(q)], rest |-> SubSeq(q, 1, Len(q) - 1)]

\* the tasks a sequence of log entries or a queue holds
Range(s) == {s[i] : i \in 1..Len(s)}

Producers == {"command_poller", "ProjectManagerAgent"}

\* pushes made by the producers so far (requeues by workers not counted)
ProducerPushes == Cardinality({i \in 1..Len(pushLog) : pushLog[i].by \in Producers})

\* r.lpush("agent_tasks", json.dumps(task)), with the history kept
Push(task, by, src) ==
    /\ queue' = LPush(queue, task)
    /\ pushLog' = IF keepLogs
                  THEN Append(pushLog, [task |-> task, by |-> by, src |-> src])
                  ELSE pushLog

----------------------------------------------------------------------------
(* agents/command_poller.py: Poller *)

\* an execute_command without the KILL_SWITCH branch
ExecBranchWithoutKill(cmd_type) ==
    IF cmd_type = "UPDATE_NOTION" THEN "notion" ELSE "queue"

\* which branch of execute_command a command type takes
ExecBranch(cmd_type) ==
    IF cmd_type = "UPDATE_NOTION" THEN "notion"
    ELSE IF cmd_type = "KILL_SWITCH" THEN "kill"
    ELSE "queue"

\* Poller.push_to_queue: the record pushed for a validated task at tick ts
QueuedTask(task, ts) ==
    [type |-> task.type, params |-> task.params, raw |-> task.raw,
     id |-> _hash(task.raw), ts |-> ts]

push_to_queue(task) ==
    /\ ProducerPushes < MaxPushes
    /\ Push(QueuedTask(task, clock + 1), "command_poller", <<task.raw>>)
    /\ clock' = clock + 1
    /\ UNCHANGED <<killKey, kill_switch_active, notionPages>>

\* NotionClient.update_page: True and the page written when Notion answers
\* 200; False, the page untouched, without a valid token, on another status
\* or on an exception
update_page(params) ==
    \E success \in BOOLEAN :
        notionPages' = IF success THEN notionPages \cup {params["page_id"]}
                                  ELSE notionPages

\* an execute_command whose KILL_SWITCH branch flips the key
execute_commandToggles(task) ==
    CASE ExecBranch(task.type) = "notion" ->
            /\ update_page(task.params)
            /\ UNCHANGED <<queue, pushLog, clock, killKey, kill_switch_active>>
      [] ExecBranch(task.type) = "kill" ->
            /\ killKey' = ~killKey
            /\ kill_switch_active' = ~killKey
            /\ UNCHANGED <<queue, pushLog, clock, notionPages>>
      [] OTHER -> push_to_queue(task)

\* an execute_command whose KILL_SWITCH branch falls through to the queue
execute_commandAlsoQueues(task) ==
    CASE ExecBranch(task.type) = "notion" ->
            /\ update_page(task.params)
            /\ UNCHANGED <<queue, pushLog, clock, killKey, kill_switch_active>>
      [] ExecBranch(task.type) = "kill" ->
            /\ killKey' = TRUE
            /\ kill_switch_active' = TRUE
            /\ ProducerPushes < MaxPushes
            /\ Push(QueuedTask(task, clock + 1), "command_poller", <<task.raw>>)
            /\ clock' = clock + 1
            /\ UNCHANGED notionPages
      [] OTHER -> push_to_queue(task)

\* Poller.execute_command
execute_command(task) ==
    CASE ExecBranch(task.type) = "notion" ->
            /\ update_page(task.params)
            /\ UNCHANGED <<queue, pushLog, clock, killKey, kill_switch_active>>
      [] ExecBranch(task.type) = "kill" ->
            /\ killKey' = TRUE
            /\ kill_switch_active' = TRUE
            /\ UNCHANGED <<queue, pushLog, clock, notionPages>>
      [] OTHER -> push_to_queue(task)

\* whether execute_command calls Redis for the task: r.set or r.lpush
UsesRedis(task) == ExecBranch(task.type) # "notion"

\* run_forever: if self.kill_switch_active: break
PollerBreak ==
    /\ "command_poller" \in running
    /\ pollerPc = "loop"
    /\ kill_switch_active
    /\ pollerPc' = "stopped"
    /\ UNCHANGED <<running, source, keepLogs, notionPages, redisUp, caught, pmSource, subscribed, subscribedAt, inbox, ledger, pmPc, pmStartKill, docHeld, unreached, queue, killKey, kv, published, processed, kill_switch_active, docMode,
                   pmProcessed, clock, nextUuid, wpc, held,
                   pushLog, claimLog, handled, svars, fvars, ivars>>

\* a run_once that reads the document without looking at the key
PollerReadsDespiteKey ==
    /\ "command_poller" \in running
    /\ pollerPc = "loop"
    /\ redisUp
    /\ ~kill_switch_active
    /\ killKey
    /\ \E mode \in {"doc", "fallback"}, content \in SUBSET (Tracked \cap source) :
          /\ docMode' = mode
          /\ docHeld' = content
          /\ unreached' = {l \in content : mode = "doc" => HasEquals(l)}
    /\ pollerPc' = "lines"
    /\ UNCHANGED <<running, source, keepLogs, notionPages, redisUp, caught, pmSource, subscribed,
                   subscribedAt, inbox, ledger, pmPc, pmStartKill, queue, killKey, kv,
                   published, processed, kill_switch_active, pmProcessed, clock, nextUuid,
                   wpc, held, pushLog, claimLog, handled, svars, fvars, ivars>>

\* run_once when check_kill_switch finds the key: returns at once; then sleep
PollerSeesKillKey ==
    /\ "command_poller" \in running
    /\ pollerPc = "loop"
    /\ redisUp
    /\ ~kill_switch_active
    /\ killKey
    /\ kill_switch_active' = TRUE
    /\ UNCHANGED <<running, source, keepLogs, notionPages, redisUp, caught, pmSource, subscribed, subscribedAt, inbox, ledger, pmPc, pmStartKill, docHeld, unreached, queue, killKey, kv, published, pollerPc, processed, docMode,
                   pmProcessed, clock, nextUuid, wpc, held,
                   pushLog, claimLog, handled, svars, fvars, ivars>>

\* run_once: check_kill_switch finds no key; read_doc returns the batch, from
\* the Google Doc or (no service, or an exception) from the fallback file
PollerReadDoc ==
    /\ "command_poller" \in running
    /\ pollerPc = "loop"
    /\ redisUp
    /\ ~kill_switch_active
    /\ ~killKey
    /\ \E mode \in {"doc", "fallback"}, content \in SUBSET (Tracked \cap source) :
          /\ docMode' = mode
          /\ docHeld' = content
          /\ unreached' = {l \in content : mode = "doc" => HasEquals(l)}
    /\ pollerPc' = "lines"
    /\ UNCHANGED <<running, source, keepLogs, notionPages, redisUp, caught, pmSource, subscribed, subscribedAt, inbox, ledger, pmPc, pmStartKill, queue, killKey, kv, published, processed, kill_switch_active,
                   pmProcessed, clock, nextUuid, wpc, held,
                   pushLog, claimLog, handled, svars, fvars, ivars>>

\* a run_once that forgets to mark the line
MarkNothing(seen, line) == seen

\* self.processed.add(line)
MarkProcessed(seen, line) == seen \cup {line}

\* run_once: task = self.validate(line), for each line a document can hold
validateOf == [l \in DocLines |-> validate(l)]

\* a run_once that leaves its for loop once the kill switch is active
PollerLineUntilKill(line) ==
    /\ "command_poller" \in running
    /\ pollerPc = "lines"
    /\ ~kill_switch_active
    /\ line \in Readable(docMode)
    /\ line \in Tracked => line \in unreached
    /\ unreached' = unreached \ {line}
    /\ IF line \in processed \/ validateOf[line] = <<>>
       THEN UNCHANGED <<queue, pushLog, clock, killKey, kill_switch_active, processed,
                         notionPages>>
       ELSE /\ UsesRedis(validateOf[line][1]) => redisUp
            /\ execute_command(validateOf[line][1])
            /\ processed' = MarkProcessed(processed, line)
    /\ UNCHANGED <<running, source, keepLogs, redisUp, caught, pmSource, subscribed, subscribedAt,
                   inbox, ledger, pmPc, pmStartKill, docHeld, kv, published, pollerPc,
                   docMode, pmProcessed, nextUuid, wpc, held, claimLog, handled, svars,
                   fvars, ivars>>

\* one iteration of "for line in commands" in run_once
PollerLine(line) ==
    /\ "command_poller" \in running
    /\ pollerPc = "lines"
    /\ line \in Readable(docMode)
    /\ line \in Tracked => line \in unreached
    /\ unreached' = unreached \ {line}
    /\ IF line \in processed \/ validateOf[line] = <<>>
       THEN UNCHANGED <<queue, pushLog, clock, killKey, kill_switch_active, processed,
                         notionPages>>
       ELSE /\ UsesRedis(validateOf[line][1]) => redisUp
            /\ execute_command(validateOf[line][1])
            /\ processed' = MarkProcessed(processed, line)
    /\ UNCHANGED <<running, source, keepLogs, redisUp, caught, pmSource, subscribed, subscribedAt, inbox, ledger, pmPc, pmStartKill, docHeld, kv, published, pollerPc, docMode, pmProcessed, nextUuid,
                   wpc, held, claimLog, handled, svars, fvars, ivars>>

\* the batch is exhausted: run_once returns, time.sleep(5)
PollerEndCycle ==
    /\ "command_poller" \in running
    /\ pollerPc = "lines"
    /\ unreached = {}
    /\ pollerPc' = "loop"
    /\ docMode' = "none"
    /\ docHeld' = {}
    /\ UNCHANGED <<running, source, keepLogs, notionPages, redisUp, caught, pmSource, subscribed, subscribedAt, inbox, ledger, pmPc, pmStartKill, unreached, queue, killKey, kv, published, processed, kill_switch_active,
                   pmProcessed, clock, nextUuid, wpc, held,
                   pushLog, claimLog, handled, svars, fvars, ivars>>

\* the kill-switch key set from outside the Poller (an operator, a supervisor)
SetKillKey ==
    /\ ~killKey
    /\ redisUp
    /\ killKey' = TRUE
    /\ UNCHANGED <<running, source, keepLogs, notionPages, redisUp, caught, pmSource, subscribed, subscribedAt, inbox, ledger, pmPc, pmStartKill, docHeld, unreached, queue, kv, published, pollerPc, processed, kill_switch_active, docMode,
                   pmProcessed, clock, nextUuid, wpc, held,
                   pushLog, claimLog, handled, svars, fvars, ivars>>

----------------------------------------------------------------------------
(* server/command_poller/poller.py and server/agents/project_manager_agent.py *)

\* a line of the command file: lead is "word" when it starts with \w
\* characters (head), "hash" for a comment, "empty" for an empty line; colon
\* says whether ":" follows head; pairs are the comma-separated parts after it
CommandTypes == {"START_CAMPAIGN", "REFACTOR_CODE", "PROVISION_INFRA"}

PMStart ==
    [lead |-> "word", head |-> "start_campaign", colon |-> TRUE,
     pairs |-> << Tok("campaign_id", "42"), <<"urgent">> >>]
PMRefactor ==
    [lead |-> "word", head |-> "REFACTOR_CODE", colon |-> TRUE,
     pairs |-> << Tok("target", "app.py") >>]
PMUnknown ==
    [lead |-> "word", head |-> "DEPLOY", colon |-> TRUE, pairs |-> << Tok("env", "prod") >>]
PMNoColon ==
    [lead |-> "word", head |-> "SCAN_SITE", colon |-> FALSE, pairs |-> <<>>]
PMComment == [lead |-> "hash", head |-> "", colon |-> FALSE, pairs |-> <<>>]
PMEmpty == [lead |-> "empty", head |-> "", colon |-> FALSE, pairs |-> <<>>]

PMLines == {PMStart, PMRefactor, PMUnknown, PMNoColon, PMComment, PMEmpty}

\* the command file with one command the manager posts, and with two
PMFileOne == {PMStart, PMUnknown, PMNoColon, PMComment, PMEmpty}
PMFileTwo == {PMStart, PMRefactor, PMUnknown}

\* CommandParser.parse_line: <<>> for None, <<ParsedCommand>> otherwise
parse_line(line) ==
    IF line.lead # "word" THEN <<>>
    ELSE IF ~line.colon THEN <<>>
    ELSE << [raw_text |-> line,
             command_type |-> IF Upper(line.head) \in CommandTypes
                              THEN Upper(line.head) ELSE "UNKNOWN",
             params |-> DictOfTokens(line.pairs)] >>

\* a2a_marketplace.post_task: the job record pushed
Job(job_id, task_type, params, posted_by) ==
    [job_id |-> job_id, task_type |-> task_type, params |-> params,
     status |-> "PENDING", posted_by |-> posted_by]

\* str(uuid.uuid4()): a value never handed out before
Uuid4(n) == <<"uuid4", n>>

post_task(task_type, params, posted_by, src) ==
    /\ ProducerPushes < MaxPushes
    /\ Push(Job(Uuid4(nextUuid + 1), task_type, params, posted_by), posted_by, src)
    /\ nextUuid' = nextUuid + 1

\* ProjectManagerAgent.run: lines = self.doc_client.read_commands()
PMRead ==
    /\ "ProjectManagerAgent" \in running
    /\ pmPc = "read"
    /\ pmPc' = "lines"
    /\ pmStartKill' = killKey
    /\ UNCHANGED <<running, source, keepLogs, notionPages, redisUp, caught, pmSource, subscribed, subscribedAt, inbox, ledger, docHeld, unreached, queue, killKey, kv, published, pollerPc,
                   processed, kill_switch_active, docMode, pmProcessed, clock, nextUuid,
                   wpc, held, pushLog, claimLog, handled, svars, fvars, ivars>>

\* ProjectManagerAgent.run: parsed = CommandParser.parse_line(line, line_num),
\* for each line the file can hold
parseOf == [l \in PMLines |-> parse_line(l)]

\* ProjectManagerAgent.run: one iteration of "for line_num, line in
\* enumerate(lines, 1)", over any line the file holds
PMLine(line) ==
    /\ "ProjectManagerAgent" \in running
    /\ pmPc = "lines"
    /\ line \in pmSource
    /\ LET parsed == parseOf[line]
       IN  IF line \notin pmProcessed /\ parsed # <<>> /\ parsed[1].command_type # "UNKNOWN"
           THEN /\ redisUp
                /\ post_task(parsed[1].command_type, parsed[1].params,
                             "ProjectManagerAgent", <<line>>)
                /\ pmProcessed' = pmProcessed \cup {line}
           ELSE UNCHANGED <<queue, pushLog, nextUuid, pmProcessed>>
    /\ UNCHANGED <<running, source, keepLogs, notionPages, redisUp, caught, pmSource, subscribed, subscribedAt, inbox, ledger, docHeld, unreached, pmPc, pmStartKill, killKey, kv, published,
                   pollerPc, processed, kill_switch_active,
                   docMode, clock, wpc, held, claimLog, handled, svars, fvars, ivars>>

\* ProjectManagerAgent.run: the for loop is over; time.sleep(10)
PMSleep ==
    /\ "ProjectManagerAgent" \in running
    /\ pmPc = "lines"
    /\ pmPc' = "read"
    /\ pmStartKill' = FALSE
    /\ UNCHANGED <<running, source, keepLogs, notionPages, redisUp, caught, pmSource, subscribed, subscribedAt, inbox, ledger, docHeld, unreached, queue, killKey, kv, published, pollerPc,
                   processed, kill_switch_active, docMode, pmProcessed, clock, nextUuid,
                   wpc, held, pushLog, claimLog, handled, svars, fvars, ivars>>

----------------------------------------------------------------------------
(* The workers: agents/site_scanner.py, agents/report_generator.py,        *)
(* agents/content_distribution_agent.py, server/agents/specialist_agents.py *)

Workers == {"site_scanner", "report_generator", "content_distribution", "SpecialistAgent"}

\* the agents of launch_agents.py (started all together or as chosen with
\* --agents) and the agents of server/agents, each started on its own
Processes == {"command_poller", "ProjectManagerAgent"} \cup Workers

Deployments == {d \in SUBSET Processes : Cardinality(d) = MaxProcesses}

\* the task type each loop of agents/ handles: task.get("type") == ...
HandledType(w) ==
    CASE w = "site_scanner" -> "SCAN_SITE"
      [] w = "report_generator" -> "PUBLISH_REPORT"
      [] w = "content_distribution" -> "DISTRIBUTE_CONTENT"
      [] OTHER -> None

\* the keys of the handlers table of specialist_agents.run
SpecialistHandlers ==
    {"START_CAMPAIGN", "REFACTOR_CODE", "PROVISION_INFRA", "CONNECT_INTEGRATION",
     "DISTRIBUTE_CONTENT", "CHECK_INTEGRATION_STATUS", "REFRESH_TOKEN", "SYNC_AUDIENCE"}

\* whether worker w has a handler for the task it claimed
HasHandler(w, task) ==
    IF w = "SpecialistAgent"
    THEN Get(task, "task_type") \in SpecialistHandlers
    ELSE Get(task, "type") = HandledType(w)

\* whether a loop of agents/ puts back a task it does not handle
\* (r.lpush("agent_tasks", raw) in the else branch)
PushesBack(w) == w \in {"site_scanner", "report_generator"}

\* the id a task is known by: task["id"] or job["job_id"]
TaskId(task) == IF "job_id" \in DOMAIN task THEN task.job_id ELSE Get(task, "id")

\* the outcomes a handler call can have
Outcomes(w) ==
    IF w = "content_distribution" THEN {"ok", "missing_file", "caught"} ELSE {"ok", "raised"}

\* the Redis keys a handler of agents/ writes with setex when it succeeds
ResultKeys(w, task) ==
    CASE w = "site_scanner" ->
            {<<"scan_result", Get(task, "id")>>, <<"scan_summary", Get(task, "id")>>}
      [] w = "report_generator" -> {<<"report_result", Get(task, "id")>>}
      [] w = "content_distribution" -> {<<"distribution_result", Get(task, "id")>>}
      [] OTHER -> {}

\* what the simulated handlers of specialist_agents return
HandlerResult(task_type) ==
    CASE task_type = "START_CAMPAIGN" ->
            [status |-> "SUCCESS", detail |-> "CAMPAIGN_STARTED"]
      [] task_type = "REFACTOR_CODE" ->
            [status |-> "SUCCESS", detail |-> "/path/to/refactored/code.py"]
      [] task_type = "PROVISION_INFRA" ->
            [status |-> "SUCCESS", detail |-> "34.123.45.67"]
      [] OTHER -> [status |-> "SUCCESS", detail |-> "handled"]

\* a2a_marketplace.publish_result: the message published
Result(job_id, status, result_data, completed_by) ==
    [job_id |-> job_id, status |-> status, result_data |-> result_data,
     completed_by |-> completed_by]

\* a channel that keeps a message for subscribers that come later
DeliverQueued(box, msg, listening) == Append(box, msg)

\* redis_client.publish(RESULTS_CHANNEL, ...): the message reaches the
\* connections subscribed at that moment and nobody else
Deliver(box, msg, listening) == IF listening THEN Append(box, msg) ELSE box

\* a2a_marketplace.publish_result
publish_result(job_id, status, result_data, completed_by) ==
    LET result == Result(job_id, status, result_data, completed_by)
    IN  /\ published' = Append(published, result)
        /\ inbox' = Deliver(inbox, result, subscribed)

\* r.brpop("agent_tasks") / claim_task returning a task
Claim(w) ==
    /\ w \in running
    /\ wpc[w] = "claim"
    /\ redisUp
    /\ queue # <<>>
    /\ keepLogs => Len(claimLog) < MaxClaims
    /\ queue' = BRPop(queue).rest
    /\ held' = [held EXCEPT ![w] = <<BRPop(queue).value>>]
    /\ claimLog' = IF keepLogs THEN Append(claimLog, BRPop(queue).value) ELSE claimLog
    /\ wpc' = [wpc EXCEPT ![w] = "dispatch"]
    /\ UNCHANGED <<running, source, keepLogs, notionPages, redisUp, caught, pmSource, subscribed, subscribedAt, inbox, ledger, pmPc, pmStartKill, docHeld, unreached, killKey, kv, published, pollerPc, processed, kill_switch_active,
                   docMode, pmProcessed, clock, nextUuid,
                   pushLog, handled, svars, fvars, ivars>>

\* the timeout argument of the blocking pop, in seconds: claim_task passes
\* timeout=30, the loops of agents/ pass none, and 0 blocks without limit
BlockingTimeout(w) == IF w = "SpecialistAgent" THEN 30 ELSE 0

\* the blocking pop giving up on an empty queue: claim_task returns None and
\* run goes on with "if not task: continue"
ClaimReturnsEmpty(w) ==
    /\ w \in running
    /\ wpc[w] = "claim"
    /\ redisUp
    /\ queue = <<>>
    /\ BlockingTimeout(w) # 0
    /\ UNCHANGED vars

\* the body of the loops of SiteScanner, ReportGenerator and Distributor after
\* the brpop: handle the task, or the else branch
AgentDispatch(w) ==
    /\ w \in running
    /\ w # "SpecialistAgent"
    /\ wpc[w] = "dispatch"
    /\ LET task == held[w][1]
       IN  IF HasHandler(w, task)
           THEN \E o \in Outcomes(w) :
                   /\ o = "ok" => redisUp
                   /\ kv' = IF o = "ok" THEN kv \cup ResultKeys(w, task) ELSE kv
                   /\ handled' = handled \cup {
                                           [worker |-> w, task |-> task, outcome |-> o]}
                   /\ UNCHANGED <<queue, pushLog>>
           ELSE /\ IF PushesBack(w)
                   THEN redisUp /\ Push(task, "worker", <<>>)
                   ELSE UNCHANGED <<queue, pushLog>>
                /\ UNCHANGED <<kv, handled>>
    /\ wpc' = [wpc EXCEPT ![w] = "claim"]
    /\ held' = [held EXCEPT ![w] = <<>>]
    /\ UNCHANGED <<running, source, keepLogs, notionPages, redisUp, caught, pmSource, subscribed, subscribedAt, inbox, ledger, pmPc, pmStartKill, docHeld, unreached, killKey, published, pollerPc, processed, kill_switch_active,
                   docMode, pmProcessed, clock, nextUuid,
                   claimLog, svars, fvars, ivars>>

\* the body of specialist_agents.run after claim_task: task['job_id'] raises
\* KeyError on a record without that field, outside any try
SpecialistDispatch ==
    LET w == "SpecialistAgent"
        task == held[w][1]
    IN  /\ w \in running
        /\ wpc[w] = "dispatch"
        /\ held' = [held EXCEPT ![w] = <<>>]
        /\ IF {"job_id", "task_type", "params"} \subseteq DOMAIN task
           THEN /\ wpc' = [wpc EXCEPT ![w] = "claim"]
                /\ IF HasHandler(w, task)
                   THEN \E o \in Outcomes(w) :
                          /\ redisUp
                          /\ handled' = handled \cup {
                                              [worker |-> w, task |-> task, outcome |-> o]}
                          /\ IF o = "ok"
                             THEN publish_result(task.job_id, "SUCCESS",
                                                 HandlerResult(task.task_type), w)
                             ELSE publish_result(task.job_id, "FAILED",
                                                 [error |-> "exception"], w)
                   ELSE UNCHANGED <<handled, published, inbox>>
           ELSE /\ wpc' = [wpc EXCEPT ![w] = "crashed"]
                /\ UNCHANGED <<handled, published, inbox>>
        /\ UNCHANGED <<running, source, keepLogs, notionPages, redisUp, caught, pmSource, subscribed, subscribedAt, ledger, pmPc, pmStartKill, docHeld, unreached, queue, killKey, kv, pollerPc, processed, kill_switch_active,
                       docMode, pmProcessed, clock, nextUuid,
                       pushLog, claimLog, svars, fvars, ivars>>

----------------------------------------------------------------------------
(* server/agents/auditor_agent.py and server/notion_client/client.py *)

\* the keyword arguments AuditorAgent.run hands to append_ledger
AuditRecord(result) ==
    [action_id |-> result.job_id,
     subject |-> <<"A2A Task Completion by", result.completed_by>>,
     result |-> result.status,
     latency_ms |-> 0,
     signed_by |-> "AuditorAgent",
     rationale |-> result.result_data]

\* a ledger file opened for writing instead of appending
append_ledgerTruncating(file, kwargs) ==
    <<[timestamp |-> "utcnow", data |-> kwargs]>>

\* NotionKVClient.append_ledger: one more line at the end of the file
append_ledger(file, kwargs) ==
    Append(file, [timestamp |-> "utcnow", data |-> kwargs])

\* AuditorAgent.__init__: self.pubsub.subscribe(RESULTS_CHANNEL)
AuditorSubscribe ==
    /\ ~subscribed
    /\ redisUp
    /\ subscribed' = TRUE
    /\ subscribedAt' = Len(published)
    /\ UNCHANGED <<running, source, keepLogs, notionPages, redisUp, caught, pmSource, inbox, ledger, pmPc, pmStartKill, docHeld, unreached,
                   queue, killKey, kv, published, pollerPc, processed, kill_switch_active,
                   docMode, pmProcessed, clock, nextUuid, wpc, held,
                   pushLog, claimLog, handled, svars, fvars, ivars>>

\* AuditorAgent.run: one iteration of "for message in self.pubsub.listen()"
AuditorObserve ==
    /\ subscribed
    /\ inbox # <<>>
    /\ ledger' = append_ledger(ledger, AuditRecord(Head(inbox)))
    /\ inbox' = Tail(inbox)
    /\ UNCHANGED <<running, source, keepLogs, notionPages, redisUp, caught, pmSource, subscribed, subscribedAt, pmPc, pmStartKill, docHeld,
                   unreached, queue, killKey, kv, published, pollerPc, processed,
                   kill_switch_active, docMode, pmProcessed, clock, nextUuid, wpc, held,
                   pushLog, claimLog, handled, svars, fvars, ivars>>

----------------------------------------------------------------------------
(* agent.py: ContentDistributionAgent.distribute and _send_to_platform *)

PlatformNames == {"X", "Email-Newsletter", "Facebook"}

\* the platforms whose send is a real API call, which can raise
RealPlatforms == {"X", "Email-Newsletter"}

\* for attempt in range(1, 4)
MaxAttempts == 3

\* the length limit of a post on X
XLimit == 280

\* content[:277] + "..." when len(content) > 280
Validated(platform, len) == IF platform = "X" /\ len > XLimit THEN XLimit ELSE len

\* time.sleep(2 ** attempt)
Backoff(a) == 2 ^ a

\* a final attempt one too early
GivesUpEarly(a) == a >= MaxAttempts - 1

\* if attempt == 3: raise
GivesUp(a) == a = MaxAttempts

\* an X branch without its return
ReturnsUnlessX(platform) == platform # "X"

\* every branch of the try block ends in "return  # Success"
ReturnsOnSuccess(platform) == TRUE

NoSend == [platform |-> "", len |-> 0, tries |-> <<>>, sleeps |-> <<>>, result |-> "none"]

\* the agent before distribute is called
SendIdle ==
    /\ sPlatforms = <<>>
    /\ sConfigs = [p \in PlatformNames |-> FALSE]
    /\ sContents = <<>>
    /\ sPc = "done"
    /\ sContent = 0
    /\ sPlatform = 0
    /\ sLen = 0
    /\ attempt = 0
    /\ tries = <<>>
    /\ sleeps = <<>>
    /\ lastSend = NoSend

\* sequences of distinct platform names
PlatformLists ==
    {ps \in UNION {[1..n -> PlatformNames] : n \in 0..MaxPlatforms} :
        \A i, j \in 1..Len(ps) : i # j => ps[i] # ps[j]}

ContentLists == UNION {[1..n -> {12, 300}] : n \in 0..MaxContents}

\* the current platform of distribute
CurPlatform == sPlatforms[sPlatform]

\* the current send is over with the given result: distribute goes on with
\* the next platform, or the next content item
Finish(result, len, outcomes, waits) ==
    /\ lastSend' = [platform |-> CurPlatform, len |-> len, tries |-> outcomes,
                    sleeps |-> waits, result |-> result]
    /\ sPc' = "next"
    /\ IF sPlatform < Len(sPlatforms)
       THEN sPlatform' = sPlatform + 1 /\ sContent' = sContent
       ELSE sPlatform' = 1 /\ sContent' = sContent + 1

\* distribute: nothing to do without contents or platforms
Distribute ==
    /\ sPc = "start"
    /\ IF sContents = <<>> \/ sPlatforms = <<>>
       THEN sPc' = "done" /\ UNCHANGED <<sContent, sPlatform>>
       ELSE sPc' = "next" /\ sContent' = 1 /\ sPlatform' = 1
    /\ UNCHANGED <<sPlatforms, sConfigs, sContents, sLen, attempt, tries, sleeps, lastSend,
                   mvars, fvars, ivars>>

\* distribute calls _send_to_platform for the next pair; with an empty
\* config the send is skipped
BeginSend ==
    /\ sPc = "next"
    /\ sContent <= Len(sContents)
    /\ tries' = <<>>
    /\ IF ~sConfigs[CurPlatform]
       THEN /\ sLen' = sContents[sContent]
            /\ attempt' = 0
            /\ sleeps' = <<>>
            /\ Finish("skipped", sContents[sContent], <<>>, <<>>)
       ELSE /\ sLen' = Validated(CurPlatform, sContents[sContent])
            /\ attempt' = 1
            /\ sleeps' = <<>>
            /\ sPc' = "try"
            /\ UNCHANGED <<sContent, sPlatform, lastSend>>
    /\ UNCHANGED <<sPlatforms, sConfigs, sContents, mvars, fvars, ivars>>

\* the loops of distribute are exhausted
EndDistribute ==
    /\ sPc = "next"
    /\ sContent > Len(sContents)
    /\ sPc' = "done"
    /\ UNCHANGED <<sPlatforms, sConfigs, sContents, sContent, sPlatform, sLen, attempt,
                   tries, sleeps, lastSend, mvars, fvars, ivars>>

\* one pass of the try block succeeds
AttemptSucceeds ==
    /\ sPc = "try"
    /\ tries' = Append(tries, "ok")
    /\ IF ReturnsOnSuccess(CurPlatform)
       THEN /\ Finish("returned", sLen, Append(tries, "ok"), sleeps)
            /\ UNCHANGED <<attempt, sLen, sleeps>>
       ELSE IF attempt < MaxAttempts
       THEN /\ attempt' = attempt + 1
            /\ UNCHANGED <<sPc, sContent, sPlatform, sLen, sleeps, lastSend>>
       ELSE /\ Finish("returned", sLen, Append(tries, "ok"), sleeps)
            /\ UNCHANGED <<attempt, sLen, sleeps>>
    /\ UNCHANGED <<sPlatforms, sConfigs, sContents, mvars, fvars, ivars>>

\* one pass of the try block raises (a real platform only): the except
\* block re-raises on the last attempt, and distribute logs the failure
AttemptFails ==
    /\ sPc = "try"
    /\ CurPlatform \in RealPlatforms
    /\ tries' = Append(tries, "fail")
    /\ IF GivesUp(attempt)
       THEN /\ Finish("raised", sLen, Append(tries, "fail"), sleeps)
            /\ UNCHANGED <<attempt, sLen, sleeps>>
       ELSE /\ sPc' = "sleep"
            /\ UNCHANGED <<sContent, sPlatform, sLen, attempt, sleeps, lastSend>>
    /\ UNCHANGED <<sPlatforms, sConfigs, sContents, mvars, fvars, ivars>>

\* time.sleep(2 ** attempt), then the next pass of the loop
Sleep ==
    /\ sPc = "sleep"
    /\ sleeps' = Append(sleeps, Backoff(attempt))
    /\ attempt' = attempt + 1
    /\ sPc' = "try"
    /\ UNCHANGED <<sPlatforms, sConfigs, sContents, sContent, sPlatform, sLen, tries,
                   lastSend, mvars, fvars, ivars>>

\* the marketplace before any process is started
MarketIdle ==
    /\ running = {}
    /\ keepLogs = TRUE
    /\ notionPages = {}
    /\ redisUp = TRUE
    /\ caught = {}
    /\ source = {}
    /\ pmSource = {}
    /\ docHeld = {}
    /\ unreached = {}
    /\ pmPc = "read"
    /\ pmStartKill = FALSE
    /\ subscribed = FALSE
    /\ subscribedAt = 0
    /\ inbox = <<>>
    /\ ledger = <<>>
    /\ queue = <<>>
    /\ killKey = FALSE
    /\ kv = {}
    /\ published = <<>>
    /\ pollerPc = "loop"
    /\ processed = {}
    /\ kill_switch_active = FALSE
    /\ docMode = "none"
    /\ pmProcessed = {}
    /\ clock = 0
    /\ nextUuid = 0
    /\ wpc = [w \in Workers |-> "claim"]
    /\ held = [w \in Workers |-> <<>>]
    /\ pushLog = <<>>
    /\ claimLog = <<>>
    /\ handled = {}

\* no call of validate is under way
ValidateIdle ==
    /\ vRaw = <<>>
    /\ vPc = "returned"
    /\ vOut = <<>>

\* no call of check_integration is under way
IntegrationIdle ==
    /\ iService = ""
    /\ iRequest = "ok"
    /\ iAccount = EmptyDict
    /\ iSites = <<>>
    /\ iPc = "returned"
    /\ iOut = EmptyDict

\* main(): an agent with any config is given any contents
InitSend ==
    /\ MarketIdle
    /\ sPlatforms \in PlatformLists
    /\ sConfigs \in [PlatformNames -> BOOLEAN]
    /\ sContents \in ContentLists
    /\ sPc = "start"
    /\ sContent = 0
    /\ sPlatform = 0
    /\ sLen = 0
    /\ attempt = 0
    /\ tries = <<>>
    /\ sleeps = <<>>
    /\ lastSend = NoSend
    /\ ValidateIdle
    /\ IntegrationIdle

NextSend ==
    \/ Distribute
    \/ BeginSend
    \/ EndDistribute
    \/ AttemptSucceeds
    \/ AttemptFails
    \/ Sleep

SpecSend == InitSend /\ [][NextSend]_vars

----------------------------------------------------------------------------
(* agents/command_poller.py: Poller.validate as a function of the raw line *)

\* the first words of the lines handed to validate
ValidateKeywords == {"SCAN_SITE", "scan_site", "PUBLISH_REPORT", "KILL_SWITCH", "DEPLOY"}

\* the tokens those lines are made of
ValidateTokens ==
    { Tok("domain", "example.com"), Tok("client", "acme"), Tok("dataset", "q3"),
      Tok("format", "pdf"), Tok("format", "ppt"), Tok("depth", "2"), <<"now">> }

\* a keyword followed by up to MaxTokens tokens
ValidateLines ==
    { <<k>> : k \in {<<w>> : w \in ValidateKeywords} } \cup
    UNION { { <<<<w>>>> \o ts : w \in ValidateKeywords, ts \in [1..n -> ValidateTokens] }
            : n \in 1..MaxTokens }

\* task = self.validate(line)
ValidateCall ==
    /\ vPc = "call"
    /\ vOut' = validate(vRaw)
    /\ vPc' = "returned"
    /\ UNCHANGED <<vRaw, mvars, svars, ivars>>

InitValidate ==
    /\ MarketIdle
    /\ SendIdle
    /\ vRaw \in ValidateLines
    /\ vPc = "call"
    /\ vOut = <<>>
    /\ IntegrationIdle

NextValidate == ValidateCall

SpecValidate == InitValidate /\ [][NextValidate]_vars

----------------------------------------------------------------------------
(* server/integrations/mailchimp_agent.py: check_integration *)

\* the longest list of connected sites considered
MaxSites == 2

\* the service names handed to check_integration
ServiceNames == {"mailchimp", "meta_lead_ads", "google_analytics", "Mailchimp"}

\* the bodies GET / answers with
AccountBodies == {[account_name |-> "test"], [account_id |-> "a1"]}

\* the platforms of the sites Mailchimp reports
SitePlatforms == {"Facebook", "Shopify", "WooCommerce"}

\* the values of "sites" in the body of GET /connected-sites
SiteLists ==
    UNION { [1..n -> [platform : SitePlatforms]] : n \in 0..MaxSites }

\* _get: r.raise_for_status() raises on a failed request, else r.json()
HTTPError == [raised |-> "HTTPError"]

\* any site counts as the Facebook one
AnySite(sites) == IF sites = <<>> THEN <<>> ELSE <<sites[1]>>

\* next((s for s in sites if s["platform"] == "Facebook"), None): <<>> for None
FirstFacebook(sites) ==
    LET at == {i \in 1..Len(sites) : sites[i].platform = "Facebook"}
    IN  IF at = {} THEN <<>>
        ELSE <<sites[CHOOSE i \in at : \A j \in at : i <= j]>>

\* check_integration that takes any connected site for the Meta one
check_integrationAnySite(service, request, account, sites) ==
    IF service = "mailchimp"
    THEN IF request # "ok" THEN HTTPError
         ELSE [status |-> "connected", account_name |-> Get(account, "account_name")]
    ELSE IF service = "meta_lead_ads"
    THEN IF request # "ok" THEN HTTPError
         ELSE [status |-> IF AnySite(sites) # <<>> THEN "connected" ELSE "disconnected",
               details |-> AnySite(sites)]
    ELSE [status |-> "unknown_service"]

check_integration(service, request, account, sites) ==
    IF service = "mailchimp"
    THEN IF request # "ok" THEN HTTPError
         ELSE [status |-> "connected", account_name |-> Get(account, "account_name")]
    ELSE IF service = "meta_lead_ads"
    THEN IF request # "ok" THEN HTTPError
         ELSE [status |-> IF FirstFacebook(sites) # <<>> THEN "connected" ELSE "disconnected",
               details |-> FirstFacebook(sites)]
    ELSE [status |-> "unknown_service"]

\* rsp = check_integration(service)
IntegrationCall ==
    /\ iPc = "call"
    /\ iOut' = check_integration(iService, iRequest, iAccount, iSites)
    /\ iPc' = "returned"
    /\ UNCHANGED <<iService, iRequest, iAccount, iSites, mvars, svars, fvars>>

InitIntegration ==
    /\ MarketIdle
    /\ SendIdle
    /\ ValidateIdle
    /\ iService \in ServiceNames
    /\ iRequest \in {"ok", "http_error"}
    /\ iAccount \in AccountBodies
    /\ iSites \in SiteLists
    /\ iPc = "call"
    /\ iOut = EmptyDict

NextIntegration == IntegrationCall

SpecIntegration == InitIntegration /\ [][NextIntegration]_vars

----------------------------------------------------------------------------
(* The marketplace as a whole *)

\* every process freshly constructed, Redis and the ledger file empty
Fresh ==
    /\ keepLogs = TRUE
    /\ notionPages = {}
    /\ redisUp = TRUE
    /\ caught = {}
    /\ docHeld = {}
    /\ unreached = {}
    /\ pmPc = "read"
    /\ pmStartKill = FALSE
    /\ subscribed = FALSE
    /\ subscribedAt = 0
    /\ inbox = <<>>
    /\ ledger = <<>>
    /\ queue = <<>>
    /\ killKey = FALSE
    /\ kv = {}
    /\ published = <<>>
    /\ pollerPc = "loop"
    /\ processed = {}
    /\ kill_switch_active = FALSE
    /\ docMode = "none"
    /\ pmProcessed = {}
    /\ clock = 0
    /\ nextUuid = 0
    /\ wpc = [w \in Workers |-> "claim"]
    /\ held = [w \in Workers |-> <<>>]
    /\ pushLog = <<>>
    /\ claimLog = <<>>
    /\ handled = {}
    /\ SendIdle
    /\ ValidateIdle
    /\ IntegrationIdle

Init ==
    /\ running \in Deployments
    /\ source \in Documents
    /\ pmSource = PMFileOne
    /\ Fresh

Next ==
    \/ PollerBreak
    \/ PollerSeesKillKey
    \/ PollerReadDoc
    \/ \E line \in DocLines : PollerLine(line)
    \/ PollerEndCycle
    \/ SetKillKey
    \/ PMRead
    \/ \E line \in PMLines : PMLine(line)
    \/ PMSleep
    \/ \E w \in Workers : Claim(w)
    \/ \E w \in Workers : ClaimReturnsEmpty(w)
    \/ \E w \in Workers : AgentDispatch(w)
    \/ SpecialistDispatch

Spec == Init /\ [][Next]_vars

\* the deployments run together with an AuditorAgent: the server pair, and
\* the Poller with a worker that has a DISTRIBUTE_CONTENT handler
AuditedDeployments ==
    {{"ProjectManagerAgent", "SpecialistAgent"},
     {"command_poller", "content_distribution"},
     {"command_poller", "SpecialistAgent"}}

InitAudit ==
    /\ running \in AuditedDeployments
    /\ source \in Documents
    /\ pmSource = PMFileTwo
    /\ Fresh

NextAudit ==
    \/ Next
    \/ AuditorSubscribe
    \/ AuditorObserve

SpecAudit == InitAudit /\ [][NextAudit]_vars

\* Poller.__init__ in a new process: the monitor of launch_agents.py starts
\* an agent again whose process is not alive, an operator at any time
PollerRestart ==
    /\ "command_poller" \in running
    /\ processed' = {}
    /\ kill_switch_active' = FALSE
    /\ pollerPc' = "loop"
    /\ docMode' = "none"
    /\ docHeld' = {}
    /\ unreached' = {}
    /\ UNCHANGED <<running, source, keepLogs, notionPages, redisUp, caught, pmSource, subscribed, subscribedAt, inbox, ledger, pmPc,
                   pmStartKill, queue, killKey, kv, published, pmProcessed, clock, nextUuid,
                   wpc, held, pushLog, claimLog, handled, svars, fvars, ivars>>

\* ProjectManagerAgent.__init__ in a new process
PMRestart ==
    /\ "ProjectManagerAgent" \in running
    /\ pmProcessed' = {}
    /\ pmPc' = "read"
    /\ pmStartKill' = FALSE
    /\ UNCHANGED <<running, source, keepLogs, notionPages, redisUp, caught, pmSource, subscribed, subscribedAt, inbox, ledger, docHeld,
                   unreached, queue, killKey, kv, published, pollerPc, processed,
                   kill_switch_active, docMode, clock, nextUuid, wpc, held,
                   pushLog, claimLog, handled, svars, fvars, ivars>>

\* the deployments followed over several lifetimes of their producer
RestartedDeployments ==
    {{"command_poller", "site_scanner"}, {"ProjectManagerAgent", "SpecialistAgent"}}

InitRestart ==
    /\ running \in RestartedDeployments
    /\ source \in Documents
    /\ pmSource = PMFileOne
    /\ Fresh

NextRestart ==
    \/ Next
    \/ PollerRestart
    \/ PMRestart

SpecRestart == InitRestart /\ [][NextRestart]_vars

----------------------------------------------------------------------------
(* The queue store out of reach: every Redis call raises ConnectionError *)

\* the Redis server stops answering
RedisGoesDown ==
    /\ redisUp
    /\ redisUp' = FALSE
    /\ UNCHANGED <<running, source, keepLogs, notionPages, caught, pmSource, subscribed, subscribedAt, inbox, ledger,
                   pmPc, pmStartKill, docHeld, unreached, queue, killKey, kv, published,
                   pollerPc, processed, kill_switch_active, docMode, pmProcessed, clock,
                   nextUuid, wpc, held, pushLog, claimLog, handled, svars, fvars, ivars>>

\* the Redis server answers again
RedisComesBack ==
    /\ ~redisUp
    /\ redisUp' = TRUE
    /\ UNCHANGED <<running, source, keepLogs, notionPages, caught, pmSource, subscribed, subscribedAt, inbox, ledger,
                   pmPc, pmStartKill, docHeld, unreached, queue, killKey, kv, published,
                   pollerPc, processed, kill_switch_active, docMode, pmProcessed, clock,
                   nextUuid, wpc, held, pushLog, claimLog, handled, svars, fvars, ivars>>

\* the blocking pop raises. specialist_agents.run calls claim_task outside any
\* try, so the exception ends the process; the loops of agents/ hold r.brpop
\* inside "try: ... except Exception as e: log.error(...); continue"
ClaimRaises(w) ==
    /\ w \in running
    /\ wpc[w] = "claim"
    /\ ~redisUp
    /\ IF w = "SpecialistAgent"
       THEN wpc' = [wpc EXCEPT ![w] = "crashed"] /\ UNCHANGED caught
       ELSE caught' = caught \cup {w} /\ UNCHANGED wpc
    /\ UNCHANGED <<running, source, keepLogs, notionPages, redisUp, pmSource, subscribed, subscribedAt, inbox, ledger,
                   pmPc, pmStartKill, docHeld, unreached, queue, killKey, kv, published,
                   pollerPc, processed, kill_switch_active, docMode, pmProcessed, clock,
                   nextUuid, held, pushLog, claimLog, handled, svars, fvars, ivars>>

\* r.lpush of the else branch of SiteScanner.loop and ReportGenerator.loop
\* raises: caught by the except of the loop, the task held is dropped
PushBackRaises(w) ==
    /\ w \in running
    /\ w # "SpecialistAgent"
    /\ wpc[w] = "dispatch"
    /\ ~redisUp
    /\ ~HasHandler(w, held[w][1])
    /\ PushesBack(w)
    /\ caught' = caught \cup {w}
    /\ wpc' = [wpc EXCEPT ![w] = "claim"]
    /\ held' = [held EXCEPT ![w] = <<>>]
    /\ UNCHANGED <<running, source, keepLogs, notionPages, redisUp, pmSource, subscribed, subscribedAt, inbox, ledger,
                   pmPc, pmStartKill, docHeld, unreached, queue, killKey, kv, published,
                   pollerPc, processed, kill_switch_active, docMode, pmProcessed, clock,
                   nextUuid, pushLog, claimLog, handled, svars, fvars, ivars>>

\* specialist_agents.run: publish_result raises after the handler ran, outside
\* the try around the handler
PublishRaises ==
    LET w == "SpecialistAgent"
    IN  /\ w \in running
        /\ wpc[w] = "dispatch"
        /\ ~redisUp
        /\ {"job_id", "task_type", "params"} \subseteq DOMAIN held[w][1]
        /\ HasHandler(w, held[w][1])
        /\ \E o \in Outcomes(w) :
              handled' = handled \cup {[worker |-> w, task |-> held[w][1], outcome |-> o]}
        /\ wpc' = [wpc EXCEPT ![w] = "crashed"]
        /\ held' = [held EXCEPT ![w] = <<>>]
        /\ UNCHANGED <<running, source, keepLogs, notionPages, redisUp, caught, pmSource, subscribed, subscribedAt,
                       inbox, ledger, pmPc, pmStartKill, docHeld, unreached, queue, killKey,
                       kv, published, pollerPc, processed, kill_switch_active, docMode,
                       pmProcessed, clock, nextUuid, pushLog, claimLog, svars, fvars, ivars>>

\* Poller.run_forever catches KeyboardInterrupt only: r.get of
\* check_kill_switch raising ends the process
PollerGetRaises ==
    /\ "command_poller" \in running
    /\ pollerPc = "loop"
    /\ ~kill_switch_active
    /\ ~redisUp
    /\ pollerPc' = "dead"
    /\ UNCHANGED <<running, source, keepLogs, notionPages, redisUp, caught, pmSource, subscribed, subscribedAt, inbox,
                   ledger, pmPc, pmStartKill, docHeld, unreached, queue, killKey, kv,
                   published, processed, kill_switch_active, docMode, pmProcessed, clock,
                   nextUuid, wpc, held, pushLog, claimLog, handled, svars, fvars, ivars>>

\* run_once: r.lpush of push_to_queue or r.set of the KILL_SWITCH branch
\* raises inside execute_command; the line is not marked, the process ends
PollerLineRaises(line) ==
    /\ "command_poller" \in running
    /\ pollerPc = "lines"
    /\ line \in Readable(docMode)
    /\ line \in Tracked => line \in unreached
    /\ line \notin processed
    /\ validateOf[line] # <<>>
    /\ UsesRedis(validateOf[line][1])
    /\ ~redisUp
    /\ pollerPc' = "dead"
    /\ UNCHANGED <<running, source, keepLogs, notionPages, redisUp, caught, pmSource, subscribed, subscribedAt, inbox,
                   ledger, pmPc, pmStartKill, docHeld, unreached, queue, killKey, kv,
                   published, processed, kill_switch_active, docMode, pmProcessed, clock,
                   nextUuid, wpc, held, pushLog, claimLog, handled, svars, fvars, ivars>>

\* ProjectManagerAgent.run has no try: r.lpush of post_task raising ends the
\* process
PMPostRaises(line) ==
    /\ "ProjectManagerAgent" \in running
    /\ pmPc = "lines"
    /\ line \in pmSource
    /\ line \notin pmProcessed
    /\ parseOf[line] # <<>>
    /\ parseOf[line][1].command_type # "UNKNOWN"
    /\ ~redisUp
    /\ pmPc' = "dead"
    /\ UNCHANGED <<running, source, keepLogs, notionPages, redisUp, caught, pmSource, subscribed, subscribedAt, inbox,
                   ledger, pmStartKill, docHeld, unreached, queue, killKey, kv, published,
                   pollerPc, processed, kill_switch_active, docMode, pmProcessed, clock,
                   nextUuid, wpc, held, pushLog, claimLog, handled, svars, fvars, ivars>>

\* the deployments followed through an outage of Redis
OutageDeployments ==
    {{"command_poller", "site_scanner"}, {"ProjectManagerAgent", "SpecialistAgent"}}

InitOutage ==
    /\ running \in OutageDeployments
    /\ source \in Documents
    /\ pmSource = PMFileOne
    /\ Fresh

NextOutage ==
    \/ Next
    \/ RedisGoesDown
    \/ RedisComesBack
    \/ \E w \in Workers : ClaimRaises(w)
    \/ \E w \in Workers : PushBackRaises(w)
    \/ PublishRaises
    \/ PollerGetRaises
    \/ \E line \in DocLines : PollerLineRaises(line)
    \/ \E line \in PMLines : PMPostRaises(line)

SpecOutage == InitOutage /\ [][NextOutage]_vars

----------------------------------------------------------------------------
(* SiteScanner and ReportGenerator alone on a queue the Poller filled *)

\* the longest queue the two workers start on
MaxQueued == 3

\* the tasks the Poller pushed: a scan, a report and a distribution
QueuedTasks ==
    { QueuedTask(validateOf[LineScan][1], 1), QueuedTask(validateOf[LineReport][1], 2),
      QueuedTask(validateOf[LineDistribute][1], 3) }

\* the queues of up to MaxQueued different tasks
StartQueues ==
    UNION { {q \in [1..n -> QueuedTasks] : \A i, j \in 1..n : q[i] = q[j] => i = j}
            : n \in 1..MaxQueued }

\* the two workers of agents/ that push back
Requeuers == {"site_scanner", "report_generator"}

InitFair ==
    /\ running = Requeuers
    /\ source = DocPublishing
    /\ pmSource = PMFileOne
    /\ keepLogs = FALSE
    /\ notionPages = {}
    /\ redisUp = TRUE
    /\ caught = {}
    /\ docHeld = {}
    /\ unreached = {}
    /\ pmPc = "read"
    /\ pmStartKill = FALSE
    /\ subscribed = FALSE
    /\ subscribedAt = 0
    /\ inbox = <<>>
    /\ ledger = <<>>
    /\ queue \in StartQueues
    /\ killKey = FALSE
    /\ kv = {}
    /\ published = <<>>
    /\ pollerPc = "loop"
    /\ processed = {}
    /\ kill_switch_active = FALSE
    /\ docMode = "none"
    /\ pmProcessed = {}
    /\ clock = MaxQueued
    /\ nextUuid = 0
    /\ wpc = [w \in Workers |-> "claim"]
    /\ held = [w \in Workers |-> <<>>]
    /\ pushLog = <<>>
    /\ claimLog = <<>>
    /\ handled = {}
    /\ SendIdle
    /\ ValidateIdle
    /\ IntegrationIdle

NextFair ==
    \/ \E w \in Requeuers : Claim(w)
    \/ \E w \in Requeuers : AgentDispatch(w)

\* each worker is a process of its own that the operating system keeps
\* running: a claim that can be served again and again is served, a task
\* held is dispatched
FairWorkers ==
    \A w \in Requeuers : SF_vars(Claim(w)) /\ WF_vars(AgentDispatch(w))

SpecFair == InitFair /\ [][NextFair]_vars /\ FairWorkers

----------------------------------------------------------------------------
(* Properties of the marketplace *)

\* the producer pushes a line of the Poller's source has caused
PollerPushes(line) ==
    Cardinality({i \in 1..Len(pushLog) :
                    pushLog[i].by = "command_poller" /\ pushLog[i].src = <<line>>})

\* the producer pushes a line of the manager's command file has caused
PMPushes(line) ==
    Cardinality({i \in 1..Len(pushLog) :
                    pushLog[i].by = "ProjectManagerAgent" /\ pushLog[i].src = <<line>>})

\* all pushes of the Poller so far
PollerPushTotal ==
    Cardinality({i \in 1..Len(pushLog) : pushLog[i].by = "command_poller"})

\* C1: the Nth task pushed onto agent_tasks (by a producer, or put back by a
\* worker, which is a push like any other) is the Nth task a claim returns,
\* whichever workers claim and however pushes and claims interleave.
C1_FifoClaimOrder ==
    /\ Len(claimLog) <= Len(pushLog)
    /\ \A n \in 1..Len(claimLog) : claimLog[n] = pushLog[n].task
    /\ Len(queue) = Len(pushLog) - Len(claimLog)
    /\ \A i \in 1..Len(queue) : queue[i] = pushLog[Len(pushLog) + 1 - i].task

\* two different tasks were pushed, and two workers claimed them while
\* both were still busy
C1_Witness ==
    /\ Len(claimLog) = 2
    /\ claimLog[1] # claimLog[2]
    /\ \E w1, w2 \in Workers : w1 # w2 /\ held[w1] = <<claimLog[1]>> /\ held[w2] = <<claimLog[2]>>

\* C2: no task is held (claimed, not yet handled or put back) by two workers
\* at the same time.
C2_SingleHolder ==
    \A w1, w2 \in Workers :
        (w1 # w2 /\ held[w1] # <<>>) => held[w1] # held[w2]

\* two workers are busy at once and the queue is drained
C2_Witness ==
    /\ queue = <<>>
    /\ Cardinality({w \in Workers : held[w] # <<>>}) = 2

\* C3 as stated: a line causes at most one push, and exactly one once it is
\* accepted (marked processed).
C3_AcceptedLineYieldsOneTask ==
    /\ \A line \in DocLines :
          /\ PollerPushes(line) <= 1
          /\ line \in processed => PollerPushes(line) = 1
    /\ \A line \in PMLines :
          /\ PMPushes(line) <= 1
          /\ line \in pmProcessed => PMPushes(line) = 1

\* C3 as amended: a line causes exactly one push once it is accepted and its
\* command type is one that is queued, and no push before that or when its
\* type (UPDATE_NOTION, KILL_SWITCH) is executed by the Poller itself.
C3_DedupOnePush ==
    /\ \A line \in DocLines :
          PollerPushes(line) =
             IF line \in processed /\ Keyword(line) \notin {"UPDATE_NOTION", "KILL_SWITCH"}
             THEN 1 ELSE 0
    /\ \A line \in PMLines :
          PMPushes(line) = IF line \in pmProcessed THEN 1 ELSE 0

\* a queued line was accepted, its task was claimed, and the Poller is
\* iterating a batch again with another push still allowed
C3_Witness ==
    /\ LineScan \in processed
    /\ PollerPushes(LineScan) = 1
    /\ queue = <<>>
    /\ pollerPc = "lines"
    /\ ProducerPushes < MaxPushes

\* the Poller has executed a KILL_SWITCH command
KillProcessed == \E line \in processed : Keyword(line) = "KILL_SWITCH"

\* C4: once the Poller has processed KILL_SWITCH and the cycle that did so
\* is over, the Poller starts no cycle that iterates lines and pushes nothing.
C4_NoPushAfterKill ==
    [][ (KillProcessed /\ pollerPc # "lines")
          => (pollerPc' # "lines" /\ PollerPushTotal' = PollerPushTotal) ]_vars

\* the Poller stopped after KILL_SWITCH with lines left it never accepted
\* and a push still allowed
C4_Witness ==
    /\ KillProcessed
    /\ pollerPc = "stopped"
    /\ LineScan \notin processed
    /\ ProducerPushes < MaxPushes

\* C5: a worker that finishes with a claimed task it has no handler for has
\* pushed that task back onto the queue.
C5_UnhandledPushedBack ==
    [][ \A w \in Workers :
          (wpc[w] = "dispatch" /\ wpc'[w] = "claim" /\ ~HasHandler(w, held[w][1]))
             => queue' = LPush(queue, held[w][1]) ]_vars

AllFail(t) == \A i \in 1..Len(t) : t[i] = "fail"

\* the send in progress, if any
Sending == sPc \in {"try", "sleep"}

\* C6: a send whose attempts all fail makes exactly 3 attempts, sleeps 2
\* seconds after the first failure and 4 after the second, does not sleep
\* after the third, and is reported as failed only after the third.
C6_FailingSendThreeAttempts ==
    /\ (lastSend.tries # <<>> /\ AllFail(lastSend.tries)) =>
          /\ lastSend.tries = <<"fail", "fail", "fail">>
          /\ lastSend.sleeps = <<2, 4>>
          /\ lastSend.result = "raised"
    /\ lastSend.result = "raised" =>
          /\ lastSend.tries = <<"fail", "fail", "fail">>
          /\ lastSend.sleeps = <<2, 4>>
    /\ (Sending /\ AllFail(tries)) =>
          /\ Len(tries) < 3
          /\ sleeps = SubSeq(<<2, 4>>, 1, Len(sleeps))
          /\ Len(sleeps) = IF sPc = "sleep" THEN Len(tries) - 1 ELSE Len(tries)

C6_Witness ==
    /\ lastSend.result = "raised"
    /\ lastSend.tries = <<"fail", "fail", "fail">>
    /\ lastSend.platform \in RealPlatforms

\* C7: a send that succeeds on attempt k makes exactly k invocations, k at
\* most 3: the success is the last attempt, k - 1 sleeps precede it, and no
\* attempt or sleep follows a success.
C7_SuccessStopsRetry ==
    /\ lastSend.result = "returned" =>
          LET k == Len(lastSend.tries) IN
             /\ k \in 1..3
             /\ lastSend.tries[k] = "ok"
             /\ \A i \in 1..(k - 1) : lastSend.tries[i] = "fail"
             /\ Len(lastSend.sleeps) = k - 1
    /\ Sending => AllFail(tries)

C7_Witness ==
    /\ lastSend.result = "returned"
    /\ lastSend.tries = <<"fail", "fail", "ok">>
    /\ lastSend.platform = "X"

\* C8: for every handler call that raised, the worker is still running and a
\* FAILED Result carrying the error was published for the task.
C8_RaiseYieldsFailedResult ==
    \A h \in handled :
        h.outcome = "raised" =>
           /\ wpc[h.worker] # "crashed"
           /\ \E i \in 1..Len(published) :
                 /\ published[i].job_id = TaskId(h.task)
                 /\ published[i].status = "FAILED"
                 /\ "error" \in DOMAIN published[i].result_data

\* C9: every handled task has exactly one Result, published by the worker
\* that claimed it under the task's id, and every Result is for a claimed task.
C9_OneResultPerHandledTask ==
    /\ \A h \in handled :
          Cardinality({i \in 1..Len(published) :
                          /\ published[i].job_id = TaskId(h.task)
                          /\ published[i].completed_by = h.worker}) = 1
    /\ \A i \in 1..Len(published) :
          \E n \in 1..Len(claimLog) : TaskId(claimLog[n]) = published[i].job_id

\* the command table of the specification: the types and their required
\* parameters (types handled by external collaborators require none here)
TableTypes ==
    {"SCAN_SITE", "PUBLISH_REPORT", "DISTRIBUTE_CONTENT", "UPDATE_NOTION", "KILL_SWITCH",
     "START_CAMPAIGN", "REFACTOR_CODE", "PROVISION_INFRA", "CHECK_INTEGRATION_STATUS",
     "REFRESH_TOKEN", "SYNC_AUDIENCE"}

TableRequired(type) ==
    CASE type = "SCAN_SITE" -> {"domain"}
      [] type = "PUBLISH_REPORT" -> {"client", "dataset", "format"}
      [] type = "DISTRIBUTE_CONTENT" -> {"content_file"}
      [] type = "UPDATE_NOTION" -> {"page_id", "content"}
      [] OTHER -> {}

TaskType(task) == IF "task_type" \in DOMAIN task THEN task.task_type ELSE Get(task, "type")

\* C10: every task on the queue has a type of the command table, carries the
\* parameters the table requires for it, and a format among pdf and csv.
C10_QueueHoldsValidTasks ==
    \A i \in 1..Len(queue) :
        LET t == queue[i]
        IN  /\ TaskType(t) \in TableTypes
            /\ TableRequired(TaskType(t)) \subseteq DOMAIN t.params
            /\ TaskType(t) = "PUBLISH_REPORT" => t.params["format"] \in {"pdf", "csv"}

\* a task of each producer is on the queue while the Poller iterates the
\* fallback file, which may hold the lines validate rejects
C10_Witness ==
    /\ Len(queue) = 2
    /\ TaskType(queue[1]) # TaskType(queue[2])
    /\ \E i \in 1..2 : "task_type" \in DOMAIN queue[i]
    /\ pollerPc = "lines"
    /\ docMode = "fallback"

\* C12: no step resets the shared kill-switch flag or the Poller's
\* kill_switch_active once it is set.
C12_KillSwitchOneWay ==
    [][ (killKey => killKey') /\ (kill_switch_active => kill_switch_active') ]_vars

\* the flag was set from outside, the Poller saw it and stopped, and the
\* other processes went on taking steps
C12_Witness ==
    /\ killKey
    /\ kill_switch_active
    /\ pollerPc = "stopped"
    /\ ~KillProcessed
    /\ claimLog # <<>>

\* C13: a poll cycle over a document that holds the KILL_SWITCH line ends
\* with the kill switch active, whichever reader served the document.
C13_KillLineActivates ==
    [][ (pollerPc = "lines" /\ pollerPc' = "loop" /\ LineKill \in docHeld)
          => (kill_switch_active' /\ killKey') ]_vars

\* C14: the step that executes a KILL_SWITCH line sets the shared flag and
\* leaves the queue as it was, and no task of type KILL_SWITCH is ever pushed.
C14_KillBypassesQueue ==
    /\ [][ \A line \in DocLines :
             (Keyword(line) = "KILL_SWITCH" /\ line \notin processed /\ line \in processed')
                => (killKey' /\ queue' = queue /\ pushLog' = pushLog) ]_vars
    /\ [](\A i \in 1..Len(pushLog) : TaskType(pushLog[i].task) # "KILL_SWITCH")

\* KILL_SWITCH was executed while a task was waiting on the queue
C14_Witness ==
    /\ KillProcessed
    /\ killKey
    /\ Len(queue) >= 1
    /\ pollerPc = "lines"

\* all pushes of the manager so far
PMPushTotal ==
    Cardinality({i \in 1..Len(pushLog) : pushLog[i].by = "ProjectManagerAgent"})

\* C15: a producer whose poll cycle starts with the kill-switch flag set
\* pushes nothing in that cycle: the Poller starts no batch and pushes no
\* task, and the manager posts no task in a batch read with the flag set.
C15_ProducersStopOnFlag ==
    [][ /\ (killKey /\ pollerPc = "loop") =>
              (pollerPc' # "lines" /\ PollerPushTotal' = PollerPushTotal)
        /\ (pmPc = "lines" /\ pmStartKill) => PMPushTotal' = PMPushTotal ]_vars

\* C16: once the kill switch is active a worker stops consuming: a worker
\* whose blocking call has returned while the key is set (it holds the task
\* the call gave it) does not go back to claiming from the queue.
C16_WorkersStopOnFlag ==
    [][ \A w \in Workers :
          (killKey /\ wpc[w] = "dispatch") => wpc'[w] # "claim" ]_vars

\* the Results published while the auditor was subscribed, in order
PublishedLive ==
    IF subscribed THEN SubSeq(published, subscribedAt + 1, Len(published)) ELSE <<>>

\* what the auditor has been handed so far: the records in the ledger, then
\* the records of the messages still waiting in its connection
Observed ==
    [i \in 1..Len(ledger) |-> ledger[i].data]
        \o [i \in 1..Len(inbox) |-> AuditRecord(inbox[i])]

\* C17: a Result reaches only an auditor subscribed when it is published,
\* and at most once: no record is observed more often than its Result was
\* published during the subscription, and a Result published before the
\* auditor subscribed (or with no auditor) is never in the ledger.
C17_OnlySubscribedDelivery ==
    /\ \A i \in 1..Len(Observed) :
          Cardinality({j \in 1..Len(Observed) : Observed[j] = Observed[i]})
             <= Cardinality({k \in 1..Len(PublishedLive) :
                                AuditRecord(PublishedLive[k]) = Observed[i]})
    /\ \A k \in 1..Len(published) :
          (~subscribed \/ k <= subscribedAt)
             => \A i \in 1..Len(ledger) : ledger[i].data # AuditRecord(published[k])

C17_Witness ==
    /\ subscribed
    /\ subscribedAt = 1
    /\ Len(published) = 2
    /\ Len(ledger) = 1
    /\ inbox = <<>>

\* C18: the ledger is append-only: every step leaves the ledger it found as
\* a prefix of the new one, and a step in which the auditor takes a Result
\* from its connection adds the record of exactly that Result at the end.
C18_LedgerAppendOnly ==
    [][ /\ Len(ledger') >= Len(ledger)
        /\ SubSeq(ledger', 1, Len(ledger)) = ledger
        /\ (inbox # <<>> /\ inbox' = Tail(inbox))
              => /\ Len(ledger') = Len(ledger) + 1
                 /\ ledger'[Len(ledger')].data = AuditRecord(Head(inbox)) ]_vars

C18_Witness ==
    /\ Len(ledger) = 2
    /\ ledger[1].data.action_id # ledger[2].data.action_id
    /\ inbox = <<>>

\* the tasks pushed for the line DISTRIBUTE_CONTENT content_file=post.txt
DistributeTasks ==
    {pushLog[i].task : i \in {n \in 1..Len(pushLog) :
                                 /\ pushLog[n].by = "command_poller"
                                 /\ pushLog[n].src = <<LineDistribute>>}}

\* a claimed task no worker holds any more: its worker is done with it
Settled(t) ==
    /\ \E n \in 1..Len(claimLog) : claimLog[n] = t
    /\ \A w \in Workers : held[w] # <<t>>
    /\ \A i \in 1..Len(queue) : queue[i] # t

\* C19: the accepted line DISTRIBUTE_CONTENT content_file=post.txt gives
\* exactly one Task of that type and params; once a worker is done with the
\* task there is exactly one Result for it; and with the auditor subscribed
\* from the start and its connection drained, exactly one ledger entry whose
\* job id is the id of the task.
C19_DistributeEndToEnd ==
    /\ LineDistribute \in processed =>
          /\ PollerPushes(LineDistribute) = 1
          /\ \A t \in DistributeTasks :
                /\ TaskType(t) = "DISTRIBUTE_CONTENT"
                /\ DOMAIN t.params = {"content_file"}
                /\ t.params["content_file"] = "post.txt"
    /\ \A t \in DistributeTasks :
          Settled(t) =>
             /\ Cardinality({k \in 1..Len(published) :
                                published[k].job_id = TaskId(t)}) = 1
             /\ (subscribed /\ subscribedAt = 0 /\ inbox = <<>>) =>
                   Cardinality({i \in 1..Len(ledger) :
                                   ledger[i].data.action_id = TaskId(t)}) = 1

\* C20: a claim on an empty queue does not block forever: whenever a running
\* worker waits in its claim and the queue is empty, the claim can return
\* empty and give the loop control again.
C20_ClaimReturnsOnEmptyQueue ==
    \A w \in running \cap Workers :
        (wpc[w] = "claim" /\ queue = <<>>) => ENABLED ClaimReturnsEmpty(w)

\* C21: a worker retries a failing handler: the step in which a handler
\* invocation fails for the first time does not end the task; the worker
\* keeps it (to wait 2^attempt seconds and invoke the handler again) and no
\* FAILED Result for it is published yet.
C21_FailingHandlerRetried ==
    [][ \A h \in handled' \ handled :
          h.outcome \in {"raised", "caught"} =>
             /\ held'[h.worker] = <<h.task>>
             /\ \A i \in 1..Len(published') :
                   published'[i].job_id # TaskId(h.task) ]_vars

\* the pushes made by producers (a task put back by a worker is none)
ProducerPushIndexes == {i \in 1..Len(pushLog) : pushLog[i].by \in Producers}

\* C22: the id of a Task is a function of its raw command text: two tasks a
\* producer created from the same raw line, in the same or in different
\* process lifetimes, have the same id.
C22_IdFunctionOfRawLine ==
    \A i, j \in ProducerPushIndexes :
        (pushLog[i].by = pushLog[j].by /\ pushLog[i].src = pushLog[j].src)
           => TaskId(pushLog[i].task) = TaskId(pushLog[j].task)

\* the status of a task as the state shows it: pending while on the queue,
\* claimed once a claim returned it, done or failed once its handler ran
Pending(t) == \E i \in 1..Len(queue) : queue[i] = t
Claimed(t) == \E n \in 1..Len(claimLog) : claimLog[n] = t
Finished(t) == \E h \in handled : h.task = t
PutBack(t) == \E i \in 1..Len(pushLog) : pushLog[i].by = "worker" /\ pushLog[i].task = t

\* a finished task is neither on the queue nor with a worker, and has one outcome
FinishedStays ==
    /\ \A h \in handled :
          /\ ~Pending(h.task)
          /\ \A w \in Workers : held[w] # <<h.task>>
    /\ \A h1, h2 \in handled : h1.task = h2.task => h1.outcome = h2.outcome

\* C23 as stated: a task that has been claimed is never pending again, and a
\* finished task never changes status.
C23_StatusNeverRegresses ==
    /\ \A n \in 1..Len(claimLog) : ~Pending(claimLog[n])
    /\ FinishedStays

\* C23: a claimed task is pending again only when a worker that does not
\* handle its type has put it back, and never after its handler ran; a
\* finished task never changes status.
C23_PendingAgainOnlyByPutBack ==
    /\ \A n \in 1..Len(claimLog) :
          Pending(claimLog[n]) => (PutBack(claimLog[n]) /\ ~Finished(claimLog[n]))
    /\ FinishedStays

C23_Witness ==
    /\ \E n \in 1..Len(claimLog) : Pending(claimLog[n])
    /\ handled # {}

\* the fields of the Task wire record
WireFields == {"id", "type", "params", "raw", "ts"}

\* C24: every record a producer pushes onto agent_tasks carries the fields
\* id, type, params, raw and ts, and no worker that claims from the queue
\* fails for a field it reads and does not find.
C24_PushedRecordsCarryWireFields ==
    /\ \A i \in ProducerPushIndexes : WireFields \subseteq DOMAIN pushLog[i].task
    /\ \A w \in Workers : wpc[w] # "crashed"

\* C25: when Redis is out of reach the failing push or claim is fatal to the
\* process it fails in: no process catches the error of a queue operation and
\* goes on with its loop
C25_QueueErrorIsFatal == caught = {}

\* the status of what check_integration gave, "raised" when it raised
StatusOf(out) == IF "status" \in DOMAIN out THEN out.status ELSE "raised"

\* a Facebook site is among the connected sites
HasFacebook == \E i \in 1..Len(iSites) : iSites[i].platform = "Facebook"

\* what the call gives that does not depend on the request made
IntegrationCommon ==
    /\ (iService = "mailchimp" /\ iRequest = "ok") =>
           /\ StatusOf(iOut) = "connected"
           /\ "account_name" \in DOMAIN iOut
           /\ iOut.account_name = Get(iAccount, "account_name")
    /\ iService \notin {"mailchimp", "meta_lead_ads"} =>
           StatusOf(iOut) = "unknown_service"

\* C26 as stated: check_integration returns for every service name; connected
\* with the account name for mailchimp when the account request succeeds;
\* for meta_lead_ads connected exactly when a Facebook site is among the
\* connected sites and disconnected otherwise; unknown_service for the rest
C26_CheckIntegrationTotal ==
    iPc = "returned" =>
        /\ StatusOf(iOut) # "raised" \/ (iService = "mailchimp" /\ iRequest # "ok")
        /\ IntegrationCommon
        /\ iService = "meta_lead_ads" =>
               StatusOf(iOut) = IF HasFacebook THEN "connected" ELSE "disconnected"

\* C26, amended: check_integration returns for every service name whenever the
\* request it makes succeeds and raises when that request fails; for
\* meta_lead_ads the answer follows the connected sites when the request for
\* them succeeds
C26_CheckIntegrationWhenRequestSucceeds ==
    iPc = "returned" =>
        /\ StatusOf(iOut) = "raised" <=>
               (iService \in {"mailchimp", "meta_lead_ads"} /\ iRequest # "ok")
        /\ IntegrationCommon
        /\ (iService = "meta_lead_ads" /\ iRequest = "ok") =>
               StatusOf(iOut) = IF HasFacebook THEN "connected" ELSE "disconnected"

\* a successful check of meta_lead_ads whose Facebook site is not the first
C26_Witness ==
    /\ iPc = "returned"
    /\ iService = "meta_lead_ads"
    /\ iRequest = "ok"
    /\ Len(iSites) = 2
    /\ iSites[1].platform # "Facebook"
    /\ iSites[2].platform = "Facebook"
    /\ StatusOf(iOut) = "connected"

\* execute_command returned for the line in this step: what its branch does
\* is done, and the Poller is still in its batch
ExecutedNow(line) ==
    /\ pollerPc = "lines"
    /\ pollerPc' = "lines"
    /\ CASE ExecBranch(validateOf[line][1].type) = "queue" ->
               /\ Len(pushLog') = Len(pushLog) + 1
               /\ pushLog'[Len(pushLog')].by = "command_poller"
               /\ pushLog'[Len(pushLog')].src = <<line>>
         [] ExecBranch(validateOf[line][1].type) = "kill" ->
               killKey' /\ kill_switch_active'
         [] OTHER -> notionPages \subseteq notionPages'

\* the Poller did in this step what execute_command does for the line
EffectNow(line) ==
    /\ pollerPc = "lines"
    /\ validateOf[line] # <<>>
    /\ CASE ExecBranch(validateOf[line][1].type) = "queue" ->
               /\ Len(pushLog') = Len(pushLog) + 1
               /\ pushLog'[Len(pushLog')].by = "command_poller"
               /\ pushLog'[Len(pushLog')].src = <<line>>
         [] ExecBranch(validateOf[line][1].type) = "kill" ->
               ~kill_switch_active /\ kill_switch_active'
         [] OTHER -> notionPages' # notionPages

\* C27: the processed set of a Poller only grows; a line enters it exactly
\* in the step in which it passed validation and execute_command returned,
\* so a rejected line and a line whose execute_command raised are not marked
C27_ProcessedMarksExecutedLines ==
    [][ /\ processed \subseteq processed'
        /\ \A line \in DocLines :
              /\ line \in processed' \ processed =>
                     (validateOf[line] # <<>> /\ ExecutedNow(line))
              /\ EffectNow(line) => line \in processed' \ processed ]_vars

\* an UPDATE_NOTION line is marked though update_page wrote nothing, and the
\* line the validator rejects is not
C27_Witness ==
    /\ LineNotion \in processed
    /\ notionPages = {}
    /\ LineUnknown \notin processed
    /\ pollerPc = "loop"

\* the lines of the batch under way that run_once would still queue: not
\* processed, accepted by validate, of a type that goes to the queue
Queueable ==
    { line \in Readable(docMode) \ processed :
         /\ line \in Tracked => line \in unreached
         /\ validateOf[line] # <<>>
         /\ ExecBranch(validateOf[line][1].type) = "queue" }

\* the iteration of run_once over the line, pushing its task and marking it
PushesLine(line) ==
    /\ PollerLine(line)
    /\ Len(pushLog') = Len(pushLog) + 1
    /\ pushLog'[Len(pushLog')].src = <<line>>
    /\ queue' = LPush(queue, pushLog'[Len(pushLog')].task)
    /\ line \in processed'

\* C28: the KILL_SWITCH command does not interrupt the poll cycle that
\* executes it: with the switch active inside a batch, each following line
\* of the batch is still validated, executed and pushed; the Poller stops
\* pushing from the next cycle on, which starts no batch
C28_KillDoesNotInterruptBatch ==
    /\ [](\A line \in DocLines :
            ( /\ "command_poller" \in running
              /\ pollerPc = "lines"
              /\ kill_switch_active
              /\ line \in Queueable
              /\ ProducerPushes < MaxPushes ) => ENABLED PushesLine(line))
    /\ [][ (kill_switch_active /\ pollerPc = "loop") =>
              (pollerPc' # "lines" /\ PollerPushTotal' = PollerPushTotal) ]_vars

\* the KILL_SWITCH line was executed in a batch that is still under way and
\* a line after it has been pushed since
C28_Witness ==
    /\ pollerPc = "lines"
    /\ KillProcessed
    /\ kill_switch_active
    /\ \E i \in 1..Len(pushLog) :
          /\ pushLog[i].by = "command_poller"
          /\ pushLog[i].src = <<LineScan>>
    /\ LineReport \in Queueable
    /\ ProducerPushes < MaxPushes

\* the state of the Poller process
PollerState == <<pollerPc, kill_switch_active, docMode, docHeld, unreached, processed>>

\* C30: with the kill-switch key set, a running Poller between two cycles
\* terminates: its next run_once can run, finds the key, sets the flag and
\* returns without reading the document or pushing; the iteration of
\* run_forever that follows can run and leaves the loop; a Poller that left
\* the loop does nothing more
C30_PollerTerminatesOnFlag ==
    /\ []( ("command_poller" \in running /\ pollerPc = "loop" /\ killKey) =>
              IF kill_switch_active THEN ENABLED PollerBreak
                                    ELSE ENABLED PollerSeesKillKey )
    /\ [][ ( /\ pollerPc = "loop"
             /\ killKey
             /\ PollerState' # PollerState ) =>
               /\ IF kill_switch_active
                  THEN pollerPc' = "stopped"
                  ELSE pollerPc' = "loop" /\ kill_switch_active'
               /\ <<docMode, docHeld, unreached, processed>>' =
                      <<docMode, docHeld, unreached, processed>>
               /\ PollerPushTotal' = PollerPushTotal ]_vars
    /\ [][ pollerPc = "stopped" => PollerState' = PollerState ]_vars

\* the Poller left its loop because of a key it did not set itself, with a
\* line of its document never pushed
C30_Witness ==
    /\ pollerPc = "stopped"
    /\ killKey
    /\ kill_switch_active
    /\ ~KillProcessed
    /\ source = DocOperations
    /\ LineScan \notin processed
    /\ ProducerPushes < MaxPushes

\* the handler of the worker whose type the task has was invoked for it
HandledByMatching(t) ==
    \E h \in handled : h.task = t /\ HandledType(h.worker) = t.type

\* C29: with SiteScanner and ReportGenerator both running and pushing back
\* what they do not handle, every SCAN_SITE and PUBLISH_REPORT task on the
\* queue is eventually handled by the worker of its type, both workers being
\* scheduled fairly
C29_MatchingWorkerEventuallyHandles ==
    \A t \in QueuedTasks :
        (t.type \in {"SCAN_SITE", "PUBLISH_REPORT"} /\ t \in Range(queue))
            ~> HandledByMatching(t)

----------------------------------------------------------------------------
(* Properties of validate *)

\* the types Poller.validate knows, and the parameters each one takes
ValidatorTypes == {"SCAN_SITE", "PUBLISH_REPORT", "DISTRIBUTE_CONTENT", "UPDATE_NOTION",
                   "KILL_SWITCH"}

\* the keyword of a line, matched without regard to case
LineType(raw) ==
    IF raw[1] \in {<<"scan_site">>, <<"SCAN_SITE">>} THEN "SCAN_SITE"
    ELSE IF raw[1] \in {<<"kill_switch">>, <<"KILL_SWITCH">>} THEN "KILL_SWITCH"
    ELSE raw[1][1]

\* the key=value tokens of a line, by position
PairPositions(raw) == {i \in 2..Len(raw) : Len(raw[i]) >= 2}

GivenKeys(raw) == {raw[i][1] : i \in PairPositions(raw)}

\* the value a key is given: the last one when it is given twice
GivenValue(raw, k) ==
    LET at == {i \in PairPositions(raw) : raw[i][1] = k}
        last == CHOOSE i \in at : \A j \in at : j <= i
    IN  raw[last][2]

RequiredGiven(raw) == TableRequired(LineType(raw)) \subseteq GivenKeys(raw)

EnumsAllowed(raw) == "format" \in GivenKeys(raw) => GivenValue(raw, "format") \in {"pdf", "csv"}

\* C11 as stated: a line of a known type is accepted exactly when every
\* required parameter is given and every enum parameter has an allowed value.
C11_AcceptsIffRequiredAndAllowed ==
    (vPc = "returned" /\ vRaw # <<>> /\ LineType(vRaw) \in ValidatorTypes) =>
        ((vOut # <<>>) <=> (RequiredGiven(vRaw) /\ EnumsAllowed(vRaw)))

\* C11 as amended: a line of a known type is accepted exactly when every
\* required parameter is given, every enum parameter has an allowed value and
\* no parameter outside the type's schema is given; the accepted command
\* carries the type and the given parameters.
C11_AcceptsIffSchemaHolds ==
    (vPc = "returned" /\ vRaw # <<>> /\ LineType(vRaw) \in ValidatorTypes) =>
        /\ (vOut # <<>>) <=>
              /\ RequiredGiven(vRaw)
              /\ EnumsAllowed(vRaw)
              /\ GivenKeys(vRaw) \subseteq TableRequired(LineType(vRaw))
        /\ vOut # <<>> =>
              /\ vOut[1].type = LineType(vRaw)
              /\ DOMAIN vOut[1].params = GivenKeys(vRaw)
              /\ \A k \in GivenKeys(vRaw) : vOut[1].params[k] = GivenValue(vRaw, k)

\* PUBLISH_REPORT client=acme dataset=q3 format=pdf was accepted
C11_Witness ==
    /\ vPc = "returned"
    /\ vRaw = << <<"PUBLISH_REPORT">>, Tok("client", "acme"), Tok("dataset", "q3"),
                 Tok("format", "pdf") >>
    /\ vOut # <<>>

====
